---- MODULE Spec2Model ----
(***************************************************************************)
(* Library Management System (src/Library.py over the schema created by   *)
(* src/Start.py): the lending state machine over the three tables users,  *)
(* books and issuedbooks.                                                  *)
(*                                                                         *)
(* Every handler (add_book, remove_book, lend_book, return_book) is        *)
(* translated once, as a step machine over the positions of its code.      *)
(* The single-operator program of main() runs a handler to completion      *)
(* (specification Spec); several program instances sharing the store take *)
(* the same steps interleaved (specification SpecConc).                    *)
(***************************************************************************)
EXTENDS Integers, FiniteSets, Bags, TLC

\* ---------------------------------------------------------------- bounds
MaxBook == 4
MaxUser == 1
MaxEmail == 2
MaxTitle == 2
MaxDay == 18
MaxClockBook == 1
MaxFaultBook == 2
MaxProc == 2
MaxPromptBook == 2

BookIds == 1..MaxBook
\* validate_numeric_input accepts every int, 0 included
UserIds == 0..MaxUser
Emails == 1..MaxEmail
Titles == 1..MaxTitle
ClockBookIds == 1..MaxClockBook
FaultBookIds == 1..MaxFaultBook
Procs == 1..MaxProc

\* ------------------------------------------------------ program constants
\* timedelta(days=15)
LOAN_DAYS == 15
\* "Fine of Rs. 5 per day"
FINE_PER_DAY == 5
\* issued_book_count >= 3
MAX_ISSUED == 3

\* SQL NULL (books.user_id of a book nobody holds); ids are >= 0 in the model
NULL == 0 - 1

VARIABLES db, today, out, procs

vars == <<db, today, out, procs>>

\* ------------------------------------------------------------- the store
\* Tables as created by initialize_database.  books: id -> row, users: id ->
\* row (PRIMARY KEY = the function's domain); issuedbooks: a bag of rows (sno
\* is an opaque AUTO_INCREMENT key, so equal rows can coexist).
EmptyStore ==
  [books |-> [b \in {} |-> 0], users |-> [u \in {} |-> 0],
   issuedbooks |-> EmptyBag]

BookRow(title, available, user_id) ==
  [title |-> title, available |-> available, user_id |-> user_id]

UserRow(email, n) == [email |-> email, issued_book_count |-> n]

IssuedRow(bid, title, uid, issue_date, due_date) ==
  [book_id |-> bid, issued_book_title |-> title, user_id |-> uid,
   issue_date |-> issue_date, due_date |-> due_date]

\* rows of issuedbooks (with multiplicity) WHERE book_id = bid
IssuedOfBook(d, bid) ==
  [r \in {x \in DOMAIN d.issuedbooks : x.book_id = bid} |-> d.issuedbooks[r]]

\* rows of issuedbooks (with multiplicity) WHERE user_id = uid
IssuedOfUser(d, uid) ==
  [r \in {x \in DOMAIN d.issuedbooks : x.user_id = uid} |-> d.issuedbooks[r]]

\* Python truthiness of a fetched user_id column: None and 0 are falsy
Truthy(v) == v # NULL /\ v # 0

\* A function with one more / one fewer key.
Put(f, k, v) == [x \in DOMAIN f \cup {k} |-> IF x = k THEN v ELSE f[x]]

Drop(f, k) == [x \in DOMAIN f \ {k} |-> f[x]]

\* ------------------------------------------------------ the SQL statements
\* What the server does with each statement text of Library.py under the
\* constraints of Start.py.  ok = FALSE is an mq.Error (constraint violation).
Ok(d) == [ok |-> TRUE, db |-> d]

Err(d) == [ok |-> FALSE, db |-> d]

\* INSERT INTO books (id, title, author, genre): available DEFAULT TRUE,
\* user_id NULL; id is the PRIMARY KEY.
InsertBook(d, bid, title) ==
  IF bid \in DOMAIN d.books
  THEN Err(d)
  ELSE Ok([d EXCEPT !.books = Put(d.books, bid, BookRow(title, TRUE, NULL))])

\* DeleteBook on a schema without the foreign key on issuedbooks.book_id
DeleteBook_NoForeignKey(d, bid) ==
  Ok([d EXCEPT !.books = Drop(d.books, bid)])

\* DELETE FROM books WHERE id = %s; issuedbooks.book_id REFERENCES books(id)
DeleteBook(d, bid) ==
  IF IssuedOfBook(d, bid) # EmptyBag
  THEN Err(d)
  ELSE Ok([d EXCEPT !.books = Drop(d.books, bid)])

\* INSERT INTO users (id, name, email, issued_book_count): id PRIMARY KEY,
\* email UNIQUE
InsertUser(d, uid, email) ==
  IF uid \in DOMAIN d.users \/ \E u \in DOMAIN d.users : d.users[u].email = email
  THEN Err(d)
  ELSE Ok([d EXCEPT !.users = Put(d.users, uid, UserRow(email, 0))])

\* UpdateBookLent that leaves the holder column alone
UpdateBookLent_NoHolder(d, uid, bid) ==
  IF bid \notin DOMAIN d.books THEN Ok(d)
  ELSE IF uid \notin DOMAIN d.users THEN Err(d)
  ELSE Ok([d EXCEPT !.books[bid].available = FALSE])

\* UPDATE books SET available = 0, user_id = %s WHERE id = %s;
\* books.user_id REFERENCES users(id)
UpdateBookLent(d, uid, bid) ==
  IF bid \notin DOMAIN d.books THEN Ok(d)
  ELSE IF uid \notin DOMAIN d.users THEN Err(d)
  ELSE Ok([d EXCEPT !.books[bid].available = FALSE, !.books[bid].user_id = uid])

\* InsertIssued that is handed the issue date for both date columns
InsertIssued_DueIsIssue(d, bid, title, uid, issue_date, due_date) ==
  IF bid \notin DOMAIN d.books \/ uid \notin DOMAIN d.users
  THEN Err(d)
  ELSE Ok([d EXCEPT !.issuedbooks =
             @ (+) SetToBag({IssuedRow(bid, title, uid, issue_date, issue_date)})])

\* INSERT INTO issuedbooks (book_id, issued_book_title, user_id, issue_date,
\* due_date); book_id REFERENCES books(id), user_id REFERENCES users(id)
InsertIssued(d, bid, title, uid, issue_date, due_date) ==
  IF bid \notin DOMAIN d.books \/ uid \notin DOMAIN d.users
  THEN Err(d)
  ELSE Ok([d EXCEPT !.issuedbooks =
             @ (+) SetToBag({IssuedRow(bid, title, uid, issue_date, due_date)})])

\* IncrementCount that updates no row
IncrementCount_Skip(d, uid) == Ok(d)

\* UPDATE users SET issued_book_count = issued_book_count + 1 WHERE id = %s
IncrementCount(d, uid) ==
  IF uid \notin DOMAIN d.users THEN Ok(d)
  ELSE Ok([d EXCEPT !.users[uid].issued_book_count = @ + 1])

\* UPDATE books SET available = 1, user_id = NULL WHERE id = %s
UpdateBookReturned(d, bid) ==
  IF bid \notin DOMAIN d.books THEN Ok(d)
  ELSE Ok([d EXCEPT !.books[bid].available = TRUE, !.books[bid].user_id = NULL])

\* UPDATE users SET issued_book_count = issued_book_count - 1
\*   WHERE id = (SELECT user_id FROM issuedbooks WHERE book_id = %s)
\* A scalar subquery: no row compares with NULL and updates nothing, more
\* than one row is error 1242.
DecrementCount(d, bid) ==
  LET rows == IssuedOfBook(d, bid) IN
  IF BagCardinality(rows) > 1 THEN Err(d)
  ELSE IF rows = EmptyBag THEN Ok(d)
  ELSE LET uid == (CHOOSE r \in DOMAIN rows : TRUE).user_id IN
       IF uid \notin DOMAIN d.users THEN Ok(d)
       ELSE Ok([d EXCEPT !.users[uid].issued_book_count = @ - 1])

\* DeleteIssued without its WHERE clause
DeleteIssued_All(d, bid) ==
  Ok([d EXCEPT !.issuedbooks = EmptyBag])

\* DELETE FROM issuedbooks WHERE book_id = %s
DeleteIssued(d, bid) ==
  Ok([d EXCEPT !.issuedbooks =
        [r \in {x \in DOMAIN @ : x.book_id # bid} |-> @[r]]])

\* execute_query: run the statement and commit; on mq.Error (a constraint
\* violation, or a fault of the connection) roll the statement back and
\* return None.  Every call commits on its own.
execute_query(d, res, fault) ==
  IF fault \/ ~res.ok THEN Err(d) ELSE res

\* calculate_fine that counts the due day as a day late
calculate_fine_Inclusive(due_date, now) == (now - due_date + 1) * FINE_PER_DAY

\* calculate_fine: (now.date() - due_date).days * 5.  It reads the clock again
\* (line 129); the date does not change while a handler runs.
calculate_fine(due_date, now) == (now - due_date) * FINE_PER_DAY

\* ------------------------------------------------------ the four handlers
\* One run of a handler: its position pc, what the operator types (bid, uid,
\* email, title), the execute_query calls at which the connection faults,
\* its locals (btitle: title = book_result[1]) and what it has printed
\* (result; failed: "Error executing query:", execute_query returned None;
\* registered: "User registered successfully!"; late and fine:
\* "Book returned late! A fine of Rs. ..."; holder: the id printed by
\* remove_book).
Idle ==
  [pc |-> "idle", op |-> "none", bid |-> 0, uid |-> 0, email |-> 0,
   title |-> 0, faults |-> {}, btitle |-> 0, result |-> "none",
   failed |-> FALSE, registered |-> FALSE, late |-> FALSE, fine |-> 0, holder |-> NULL,
   rows |-> {}]

\* main(): the menu choice calls the handler, which starts at its prompts
Start(op, pc, bid, uid, email, title, faults) ==
  [Idle EXCEPT !.pc = pc, !.op = op, !.bid = bid, !.uid = uid,
               !.email = email, !.title = title, !.faults = faults]

\* the handler returns (or raises) having printed the message of `result`
Done(ps, result) == [ps EXCEPT !.pc = "done", !.result = result]

Cfg(ps, d) == [ps |-> ps, db |-> d]

Faulty(ps) == ps.pc \in ps.faults

\* execute_query prints the error it swallows
Seen(ps, r) == [ps EXCEPT !.failed = @ \/ ~r.ok]

\* add_book that leaves the duplicate check to the primary key
add_book_step_NoCheck(ps, d) ==
  CASE ps.pc = "A_prompt" ->
         {Cfg([ps EXCEPT !.pc = "A_read"], d)}
    [] ps.pc = "A_read" ->
         {Cfg([ps EXCEPT !.pc = "A_insert"], d)}
    [] ps.pc = "A_insert" ->
         LET r == execute_query(d, InsertBook(d, ps.bid, ps.title), Faulty(ps))
         IN {Cfg(Done(Seen(ps, r), IF r.ok THEN "OK" ELSE "StoreError"), r.db)}

\* add_book
add_book_step(ps, d) ==
  CASE ps.pc = "A_prompt" ->
         {Cfg([ps EXCEPT !.pc = "A_read"], d)}
    [] ps.pc = "A_read" ->
         IF ps.bid \in DOMAIN d.books
         THEN {Cfg(Done(ps, "DuplicateID"), d)}
         ELSE {Cfg([ps EXCEPT !.pc = "A_insert"], d)}
    [] ps.pc = "A_insert" ->
         LET r == execute_query(d, InsertBook(d, ps.bid, ps.title), Faulty(ps))
         IN {Cfg(Done(Seen(ps, r), IF r.ok THEN "OK" ELSE "StoreError"), r.db)}

\* remove_book
remove_book_step(ps, d) ==
  CASE ps.pc = "X_prompt" ->
         {Cfg([ps EXCEPT !.pc = "X_read"], d)}
    [] ps.pc = "X_read" ->
         IF ps.bid \in DOMAIN d.books /\ Truthy(d.books[ps.bid].user_id)
         THEN {Cfg([Done(ps, "BookOnLoan")
                      EXCEPT !.holder = d.books[ps.bid].user_id], d)}
         ELSE IF ps.bid \notin DOMAIN d.books
         THEN {Cfg(Done(ps, "NotFound"), d)}
         ELSE {Cfg([ps EXCEPT !.pc = "X_delete"], d)}
    [] ps.pc = "X_delete" ->
         LET r == execute_query(d, DeleteBook(d, ps.bid), Faulty(ps))
         IN {Cfg(Done(Seen(ps, r), IF r.ok THEN "OK" ELSE "StoreError"), r.db)}

\* lend_checks whose book lookup drops "AND available = 1"
lend_checks_AnyBook(ps, d) ==
  IF ps.uid \notin DOMAIN d.users
  THEN Done(ps, "TypeError")
  ELSE IF d.users[ps.uid].issued_book_count >= MAX_ISSUED
  THEN Done(ps, "LendingLimitExceeded")
  ELSE IF ps.bid \notin DOMAIN d.books
  THEN Done(ps, "BookUnavailable")
  ELSE [ps EXCEPT !.pc = "L_update_book", !.btitle = d.books[ps.bid].title]

\* lend_checks whose capacity check is "> 3"
lend_checks_Above(ps, d) ==
  IF ps.uid \notin DOMAIN d.users
  THEN Done(ps, "TypeError")
  ELSE IF d.users[ps.uid].issued_book_count > MAX_ISSUED
  THEN Done(ps, "LendingLimitExceeded")
  ELSE IF ps.bid \notin DOMAIN d.books \/ ~d.books[ps.bid].available
  THEN Done(ps, "BookUnavailable")
  ELSE [ps EXCEPT !.pc = "L_update_book", !.btitle = d.books[ps.bid].title]

\* lend_checks that looks the book up before it counts the loans
lend_checks_BookFirst(ps, d) ==
  IF ps.uid \notin DOMAIN d.users
  THEN Done(ps, "TypeError")
  ELSE IF ps.bid \notin DOMAIN d.books \/ ~d.books[ps.bid].available
  THEN Done(ps, "BookUnavailable")
  ELSE IF d.users[ps.uid].issued_book_count >= MAX_ISSUED
  THEN Done(ps, "LendingLimitExceeded")
  ELSE [ps EXCEPT !.pc = "L_update_book", !.btitle = d.books[ps.bid].title]

\* lend_book, lines 221-236: the capacity check and the availability check
lend_checks(ps, d) ==
  IF ps.uid \notin DOMAIN d.users
  THEN Done(ps, "TypeError")
  ELSE IF d.users[ps.uid].issued_book_count >= MAX_ISSUED
  THEN Done(ps, "LendingLimitExceeded")
  ELSE IF ps.bid \notin DOMAIN d.books \/ ~d.books[ps.bid].available
  THEN Done(ps, "BookUnavailable")
  ELSE [ps EXCEPT !.pc = "L_update_book", !.btitle = d.books[ps.bid].title]

\* lend_book that inserts the unknown borrower's row before it asks for the
\* name and the e-mail
lend_book_step_EagerRegister(ps, d, now) ==
  CASE ps.pc = "L_prompt" ->
         {Cfg([ps EXCEPT !.pc = "L_read"], d)}
    [] ps.pc = "L_read" ->
         IF ps.uid \notin DOMAIN d.users
         THEN LET r == execute_query(d, InsertUser(d, ps.uid, ps.email),
                                     Faulty(ps))
              IN {Cfg([Seen(ps, r) EXCEPT !.pc = "L_prompt_user",
                                          !.registered = TRUE], r.db)}
         ELSE {Cfg(lend_checks(ps, d), d)}
    [] ps.pc = "L_prompt_user" ->
         {Cfg([ps EXCEPT !.pc = "L_read_new"], d)}
    [] ps.pc = "L_insert_user" ->
         {Cfg([ps EXCEPT !.pc = "L_read_new"], d)}
    [] ps.pc = "L_read_new" ->
         {Cfg(lend_checks(ps, d), d)}
    [] ps.pc = "L_update_book" ->
         LET r == execute_query(d, UpdateBookLent(d, ps.uid, ps.bid), Faulty(ps))
         IN {Cfg([Seen(ps, r) EXCEPT !.pc = "L_insert_issued"], r.db)}
    [] ps.pc = "L_insert_issued" ->
         LET r == execute_query(d,
                    InsertIssued(d, ps.bid, ps.btitle, ps.uid, now,
                                 now + LOAN_DAYS),
                    Faulty(ps))
         IN {Cfg([Seen(ps, r) EXCEPT !.pc = "L_update_count"], r.db)}
    [] ps.pc = "L_update_count" ->
         LET r == execute_query(d, IncrementCount(d, ps.uid), Faulty(ps))
         IN {Cfg(Done(Seen(ps, r), "OK"), r.db)}

\* lend_book
lend_book_step(ps, d, now) ==
  CASE ps.pc = "L_prompt" ->
         {Cfg([ps EXCEPT !.pc = "L_read"], d)}
    [] ps.pc = "L_read" ->
         IF ps.uid \notin DOMAIN d.users
         THEN {Cfg([ps EXCEPT !.pc = "L_prompt_user"], d)}
         ELSE {Cfg(lend_checks(ps, d), d)}
    [] ps.pc = "L_prompt_user" ->
         {Cfg([ps EXCEPT !.pc = "L_insert_user"], d)}
    [] ps.pc = "L_insert_user" ->
         LET r == execute_query(d, InsertUser(d, ps.uid, ps.email), Faulty(ps))
         IN {Cfg([Seen(ps, r) EXCEPT !.pc = "L_read_new", !.registered = TRUE],
                 r.db)}
    [] ps.pc = "L_read_new" ->
         {Cfg(lend_checks(ps, d), d)}
    [] ps.pc = "L_update_book" ->
         LET r == execute_query(d, UpdateBookLent(d, ps.uid, ps.bid), Faulty(ps))
         IN {Cfg([Seen(ps, r) EXCEPT !.pc = "L_insert_issued"], r.db)}
    [] ps.pc = "L_insert_issued" ->
         LET r == execute_query(d,
                    InsertIssued(d, ps.bid, ps.btitle, ps.uid, now,
                                 now + LOAN_DAYS),
                    Faulty(ps))
         IN {Cfg([Seen(ps, r) EXCEPT !.pc = "L_update_count"], r.db)}
    [] ps.pc = "L_update_count" ->
         LET r == execute_query(d, IncrementCount(d, ps.uid), Faulty(ps))
         IN {Cfg(Done(Seen(ps, r), "OK"), r.db)}

\* return_book, lines 294-298: the fine is printed only
fine_check(ps, due_date, now) ==
  IF now > due_date
  THEN [ps EXCEPT !.late = TRUE, !.fine = calculate_fine(due_date, now)]
  ELSE ps

\* return_read without the "is the book issued" check
return_read_NoIssuedCheck(ps, d, now) ==
  IF ps.bid \notin DOMAIN d.books
  THEN {Cfg(Done(ps, "NotFound"), d)}
  ELSE LET rows == {r \in DOMAIN d.issuedbooks :
                      r.book_id = ps.bid /\ r.user_id = ps.uid}
       IN IF rows = {}
          THEN {Cfg(Done(ps, "LoanMismatch"), d)}
          ELSE {Cfg([fine_check(ps, r.due_date, now)
                       EXCEPT !.pc = "R_update_book"], d) : r \in rows}

\* return_book, lines 272-298: the three checks and the fine.  fetchone()
\* takes whichever matching row the server lists first.
return_read(ps, d, now) ==
  IF ps.bid \notin DOMAIN d.books
  THEN {Cfg(Done(ps, "NotFound"), d)}
  ELSE IF ~Truthy(d.books[ps.bid].user_id)
  THEN {Cfg(Done(ps, "NotOnLoan"), d)}
  ELSE LET rows == {r \in DOMAIN d.issuedbooks :
                      r.book_id = ps.bid /\ r.user_id = ps.uid}
       IN IF rows = {}
          THEN {Cfg(Done(ps, "LoanMismatch"), d)}
          ELSE {Cfg([fine_check(ps, r.due_date, now)
                       EXCEPT !.pc = "R_update_book"], d) : r \in rows}

\* return_book
return_book_step(ps, d, now) ==
  CASE ps.pc = "R_prompt" ->
         {Cfg([ps EXCEPT !.pc = "R_read"], d)}
    [] ps.pc = "R_read" ->
         return_read(ps, d, now)
    [] ps.pc = "R_update_book" ->
         LET r == execute_query(d, UpdateBookReturned(d, ps.bid), Faulty(ps))
         IN {Cfg([Seen(ps, r) EXCEPT !.pc = "R_update_count"], r.db)}
    [] ps.pc = "R_update_count" ->
         LET r == execute_query(d, DecrementCount(d, ps.bid), Faulty(ps))
         IN {Cfg([Seen(ps, r) EXCEPT !.pc = "R_delete_issued"], r.db)}
    [] ps.pc = "R_delete_issued" ->
         LET r == execute_query(d, DeleteIssued(d, ps.bid), Faulty(ps))
         IN {Cfg(Done(Seen(ps, r), "OK"), r.db)}

\* The reporting handlers: each runs one SELECT and prints the rows as a
\* table.  A report is modelled by the key column of the rows it prints.
\* available_books: WHERE available = 1
available_books(d) == {b \in DOMAIN d.books : d.books[b].available}

\* issued_books: every row of issuedbooks
issued_books(d) == {r.book_id : r \in DOMAIN d.issuedbooks}

\* overdue_books: users INNER JOIN issuedbooks WHERE due_date < current_date
overdue_books(d, now) ==
  {r.book_id : r \in {x \in DOMAIN d.issuedbooks :
                         x.user_id \in DOMAIN d.users /\ x.due_date < now}}

\* active_users: WHERE issued_book_count > 0
active_users(d) == {u \in DOMAIN d.users : d.users[u].issued_book_count > 0}

\* search_books_by_title: WHERE Title LIKE '%key%'.  Titles are atoms here, so
\* a key is given by the set of titles that contain it.
search_books_by_title(d, match) ==
  {b \in DOMAIN d.books : d.books[b].title \in match}

\* one step of whichever handler is running
Step(ps, d, now) ==
  CASE ps.op = "add" -> add_book_step(ps, d)
    [] ps.op = "remove" -> remove_book_step(ps, d)
    [] ps.op = "lend" -> lend_book_step(ps, d, now)
    [] ps.op = "return" -> return_book_step(ps, d, now)

\* the handler run to its end with nothing else touching the store: the
\* configurations it can end in
RECURSIVE Run(_, _)
Run(cfgs, now) ==
  IF \A c \in cfgs : c.ps.pc = "done"
  THEN cfgs
  ELSE Run(UNION {IF c.ps.pc = "done" THEN {c} ELSE Step(c.ps, c.db, now)
                   : c \in cfgs}, now)

\* ------------------------------------------------------------- Spec
\* What an operation leaves on the screen: its inputs and its messages.
Printed(ps) ==
  [Idle EXCEPT !.op = ps.op, !.bid = ps.bid, !.uid = ps.uid,
               !.result = ps.result, !.failed = ps.failed,
               !.registered = ps.registered,
               !.late = ps.late, !.fine = ps.fine, !.holder = ps.holder]

\* the connection answers every statement
NoFault == {{}}

\* the connection fails at most one execute_query call of an operation
OneFault ==
  {{}} \cup {{pc} : pc \in {"A_insert", "X_delete", "L_insert_user",
                             "L_update_book", "L_insert_issued",
                             "L_update_count", "R_update_book",
                             "R_update_count", "R_delete_issued"}}

\* main(): the chosen handler runs to its end before the next menu
Call(ps) ==
  \E c \in Run({Cfg(ps, db)}, today) :
    /\ db' = c.db
    /\ out' = Printed(c.ps)
    /\ UNCHANGED <<today, procs>>

AddBookIn(B, T, F) ==
  \E bid \in B, title \in T, faults \in F :
    Call(Start("add", "A_prompt", bid, 0, 0, title, faults))

RemoveBookIn(B, F) ==
  \E bid \in B, faults \in F :
    Call(Start("remove", "X_prompt", bid, 0, 0, 0, faults))

LendBookIn(B, F) ==
  \E bid \in B, uid \in UserIds, email \in Emails, faults \in F :
    Call(Start("lend", "L_prompt", bid, uid, email, 0, faults))

ReturnBookIn(B, F) ==
  \E bid \in B, uid \in UserIds, faults \in F :
    Call(Start("return", "R_prompt", bid, uid, 0, 0, faults))

\* The program of main() on one day: one operator, one handler at a time,
\* on a store that answers every statement.
\* main(): choices 5 to 9, the search and the four reports, with titles of T
ReportIn(T) ==
  /\ \E q \in {[op |-> "available_books", rows |-> available_books(db)],
               [op |-> "issued_books", rows |-> issued_books(db)],
               [op |-> "overdue_books", rows |-> overdue_books(db, today)],
               [op |-> "active_users", rows |-> active_users(db)]}
                \cup {[op |-> "search_books", rows |-> search_books_by_title(db, m)] :
                        m \in SUBSET T} :
       out' = [Idle EXCEPT !.op = q.op, !.rows = q.rows]
  /\ UNCHANGED <<db, today, procs>>

Init ==
  /\ db = EmptyStore
  /\ today = 0
  /\ out = Idle
  /\ procs = <<>>

\* no handler branches on a title: one title is typed here, Titles in SpecClock
AddBook == AddBookIn(BookIds, {1}, NoFault)

RemoveBook == RemoveBookIn(BookIds, NoFault)

LendBook == LendBookIn(BookIds, NoFault)

ReturnBook == ReturnBookIn(BookIds, NoFault)

Report == ReportIn({1})

Next == AddBook \/ RemoveBook \/ LendBook \/ ReturnBook \/ Report

Spec == Init /\ [][Next]_vars

\* ------------------------------------------------------------- SpecClock
\* The same program over several days: datetime.now() moves on between
\* operations.
ClockAddBook == AddBookIn(ClockBookIds, Titles, NoFault)

ClockRemoveBook == RemoveBookIn(ClockBookIds, NoFault)

ClockLendBook == LendBookIn(ClockBookIds, NoFault)

ClockReturnBook == ReturnBookIn(ClockBookIds, NoFault)

Tick ==
  /\ \E d \in {1, LOAN_DAYS} :
       /\ today + d <= MaxDay
       /\ today' = today + d
  /\ out' = [Idle EXCEPT !.op = "tick"]
  /\ UNCHANGED <<db, procs>>

ClockReport == ReportIn(Titles)

NextClock ==
  \/ ClockAddBook \/ ClockRemoveBook \/ ClockLendBook \/ ClockReturnBook
  \/ ClockReport \/ Tick

SpecClock == Init /\ [][NextClock]_vars

\* ------------------------------------------------------------- SpecFault
\* The same program on a connection that can fail a statement: execute_query
\* catches the mq.Error, rolls that statement back and the handler goes on.
\* A fault is injected into a store that is still consistent, which keeps the
\* counters bounded: after it the program runs on without further faults
\* until the tables agree again.
Consistent(d) ==
  /\ \A b \in DOMAIN d.books :
       BagCardinality(IssuedOfBook(d, b)) =
         (IF d.books[b].available THEN 0 ELSE 1)
  /\ \A u \in DOMAIN d.users :
       d.users[u].issued_book_count = BagCardinality(IssuedOfUser(d, u))

FaultsNow == IF Consistent(db) THEN OneFault ELSE NoFault

FaultAddBook == AddBookIn(FaultBookIds, {1}, FaultsNow)

FaultRemoveBook == RemoveBookIn(FaultBookIds, FaultsNow)

FaultLendBook == LendBookIn(FaultBookIds, FaultsNow)

FaultReturnBook == ReturnBookIn(FaultBookIds, FaultsNow)

NextFault ==
  FaultAddBook \/ FaultRemoveBook \/ FaultLendBook \/ FaultReturnBook

SpecFault == Init /\ [][NextFault]_vars

\* ------------------------------------------------------------- SpecConc
\* Several instances of the program (two librarian terminals) on one store.
\* Every instance runs one operation; their steps interleave.  The SELECTs a
\* handler issues between two commits read one snapshot (the connection has
\* autocommit off), so each read block is one step; every execute_query call
\* commits and is one step.
After(d, ps) == (CHOOSE c \in Run({Cfg(ps, d)}, 0) : TRUE).db

\* the store after add_book of the books 1..n
RECURSIVE Stocked(_)
Stocked(n) ==
  IF n = 0 THEN EmptyStore
  ELSE After(Stocked(n - 1), Start("add", "A_prompt", n, 0, 0, 1, {}))

\* ... and after lend_book of the books 1..k to user 1
RECURSIVE Lent(_, _)
Lent(n, k) ==
  IF k = 0 THEN Stocked(n)
  ELSE After(Lent(n, k - 1), Start("lend", "L_prompt", k, 1, 1, 0, {}))

InitConc ==
  /\ db \in {Lent(MaxBook, k) : k \in 0..(MAX_ISSUED - 1)}
  /\ today = 0
  /\ out = Idle
  /\ procs = [p \in Procs |-> Idle]

\* what an operator can ask for at the menu
Calls ==
  {Start("add", "A_prompt", bid, 0, 0, 1, {}) : bid \in BookIds}
  \cup {Start("remove", "X_prompt", bid, 0, 0, 0, {}) : bid \in BookIds}
  \cup {Start("lend", "L_prompt", bid, uid, 2, 0, {}) :
          bid \in BookIds, uid \in UserIds}
  \cup {Start("return", "R_prompt", bid, uid, 0, 0, {}) :
          bid \in BookIds, uid \in UserIds}

ProcStart ==
  \E p \in Procs :
    /\ procs[p].pc = "idle"
    /\ \E ps \in Calls : procs' = [procs EXCEPT ![p] = ps]
    /\ UNCHANGED <<db, today, out>>

ProcStep ==
  \E p \in Procs :
    /\ procs[p].pc \notin {"idle", "done"}
    /\ \E c \in Step(procs[p], db, today) :
         /\ procs' = [procs EXCEPT ![p] = c.ps]
         /\ db' = c.db
    /\ UNCHANGED <<today, out>>

NextConc == ProcStart \/ ProcStep

SpecConc == InitConc /\ [][NextConc]_vars

\* ------------------------------------------- the operator at the prompts
\* One operator, one handler at a time, followed statement by statement.  At
\* each input() the operator may end the input (EOF, Ctrl-C): input() raises,
\* nothing catches it and the program ends; the operator starts it again.
\* procs is the running handler (ps) together with the store as the handler
\* found it when it was called (began).
PromptBookIds == 1..MaxPromptBook

\* the positions at which a handler waits in input()
PromptPcs == {"A_prompt", "X_prompt", "L_prompt", "L_prompt_user", "R_prompt"}

InitPrompt ==
  /\ db = EmptyStore
  /\ today = 0
  /\ out = Idle
  /\ procs = [ps |-> Idle, began |-> EmptyStore]

PromptStart ==
  /\ procs.ps.pc = "idle"
  /\ \E ps \in
         {Start("add", "A_prompt", bid, 0, 0, 1, {}) : bid \in PromptBookIds}
         \cup {Start("remove", "X_prompt", bid, 0, 0, 0, {}) :
                 bid \in PromptBookIds}
         \cup {Start("lend", "L_prompt", bid, uid, email, 0, {}) :
                 bid \in PromptBookIds, uid \in UserIds, email \in Emails}
         \cup {Start("return", "R_prompt", bid, uid, 0, 0, {}) :
                 bid \in PromptBookIds, uid \in UserIds} :
       procs' = [ps |-> ps, began |-> db]
  /\ UNCHANGED <<db, today, out>>

PromptStep ==
  /\ procs.ps.pc \notin {"idle", "done"}
  /\ \E c \in Step(procs.ps, db, today) :
       /\ procs' = [procs EXCEPT !.ps = c.ps]
       /\ db' = c.db
  /\ UNCHANGED <<today, out>>

PromptAbort ==
  /\ procs.ps.pc \in PromptPcs
  /\ procs' = [procs EXCEPT !.ps = Done(@, IF @.pc = "L_prompt_user"
                                            THEN "AbortedRegistration"
                                            ELSE "Aborted")]
  /\ UNCHANGED <<db, today, out>>

PromptReturn ==
  /\ procs.ps.pc = "done"
  /\ procs' = [ps |-> Idle, began |-> db]
  /\ UNCHANGED <<db, today, out>>

NextPrompt == PromptStart \/ PromptStep \/ PromptAbort \/ PromptReturn

SpecPrompt == InitPrompt /\ [][NextPrompt]_vars

\* ============================================================== claims
\* the open Loans of a book / of a borrower, counted with multiplicity
LoansOfBook(b) == BagCardinality(IssuedOfBook(db, b))

LoansOfUser(u) == BagCardinality(IssuedOfUser(db, u))

\* C1: after every operation of the single-operator program, a Book is
\* unavailable iff exactly one open Loan has its id, its holder is then that
\* Loan's borrower, and an available Book has no holder.
C1_BookLoanInvariant ==
  \A b \in DOMAIN db.books :
    /\ ~db.books[b].available <=> LoansOfBook(b) = 1
    /\ ~db.books[b].available =>
         \A r \in DOMAIN IssuedOfBook(db, b) : db.books[b].user_id = r.user_id
    /\ db.books[b].available => db.books[b].user_id = NULL

\* a Return has just succeeded while another Book is still out on loan
C1_Witness ==
  /\ out.op = "return" /\ out.result = "OK"
  /\ db.books[out.bid].available
  /\ \E b \in DOMAIN db.books : ~db.books[b].available /\ LoansOfBook(b) = 1

\* C2: after every operation, each Borrower's issued_book_count is the number
\* of open Loans of that Borrower and is at most 3.
C2_CountInvariant ==
  \A u \in DOMAIN db.users :
    /\ db.users[u].issued_book_count = LoansOfUser(u)
    /\ db.users[u].issued_book_count <= 3

\* a fourth Lend has just been refused to a Borrower holding three Loans
C2_Witness ==
  /\ out.op = "lend" /\ out.result = "LendingLimitExceeded"
  /\ db.users[out.uid].issued_book_count = 3
  /\ LoansOfUser(out.uid) = 3

\* C3: when two instances run Lend on the same Book concurrently, the Book
\* never has two open Loans and the two Lends never both succeed.
C3_OneLendWins ==
  \A p, q \in Procs :
    (/\ p # q
     /\ procs[p].op = "lend" /\ procs[q].op = "lend"
     /\ procs[p].bid = procs[q].bid)
    => /\ LoansOfBook(procs[p].bid) <= 1
       /\ ~(procs[p].result = "OK" /\ procs[q].result = "OK")

\* C4: a Lend or Return transition in which a store statement failed leaves
\* none of its writes in the store.
C4_AllOrNothing ==
  [][(out'.op \in {"lend", "return"} /\ out'.result = "OK" /\ out'.failed)
       => /\ db'.books = db.books
          /\ db'.issuedbooks = db.issuedbooks
          /\ \A u \in DOMAIN db.users : db'.users[u] = db.users[u]
          /\ \A u \in DOMAIN db'.users \ DOMAIN db.users :
               db'.users[u].issued_book_count = 0]_vars

\* the Lend of this step is asked for a Book whose available flag is false
LendOfUnavailable ==
  /\ out'.op = "lend"
  /\ out'.bid \in DOMAIN db.books
  /\ ~db.books[out'.bid].available

\* C5 as stated: Lend of an unavailable Book fails with BookUnavailable and
\* changes nothing, whoever the borrower is.
C5_Original ==
  [][LendOfUnavailable
       => out'.result = "BookUnavailable" /\ db' = db]_vars

\* C5 amended: for a registered Borrower with fewer than 3 open Loans, Lend of
\* an unavailable Book fails with BookUnavailable and changes nothing.
C5_UnavailableRejected ==
  [][(/\ LendOfUnavailable
      /\ out'.uid \in DOMAIN db.users
      /\ db.users[out'.uid].issued_book_count < 3)
       => out'.result = "BookUnavailable" /\ db' = db]_vars

\* a registered Borrower has just been refused a Book that is out on loan
C5_Witness ==
  /\ out.op = "lend" /\ out.result = "BookUnavailable" /\ ~out.registered
  /\ out.bid \in DOMAIN db.books
  /\ ~db.books[out.bid].available

\* C6: a Borrower with 3 open Loans asking for an available Book is refused
\* with LendingLimitExceeded and nothing changes.
C6_LimitRejected ==
  [][(/\ out'.op = "lend"
      /\ out'.uid \in DOMAIN db.users
      /\ db.users[out'.uid].issued_book_count = 3
      /\ out'.bid \in DOMAIN db.books
      /\ db.books[out'.bid].available)
       => out'.result = "LendingLimitExceeded" /\ db' = db]_vars

\* a Borrower at the limit has just been refused a Book that is available
C6_Witness ==
  /\ out.op = "lend" /\ out.result = "LendingLimitExceeded"
  /\ out.bid \in DOMAIN db.books
  /\ db.books[out.bid].available
  /\ db.users[out.uid].issued_book_count = 3

\* C7: Return of an existing available Book fails with NotOnLoan, Return of
\* an unknown book id fails with NotFound, and neither changes anything.
C7_ReturnRejected ==
  [][out'.op = "return"
       => /\ (out'.bid \in DOMAIN db.books /\ db.books[out'.bid].available)
               => out'.result = "NotOnLoan" /\ db' = db
          /\ out'.bid \notin DOMAIN db.books
               => out'.result = "NotFound" /\ db' = db]_vars

\* a Return of an available Book has just been refused
C7_Witness ==
  /\ out.op = "return" /\ out.result = "NotOnLoan"
  /\ out.bid \in DOMAIN db.books
  /\ db.books[out.bid].available

\* C8: a Return(b, u) right after a successful Lend(b, u) succeeds, leaves b
\* available with no holder and no Loan, and takes u's count back down.
C8_RoundTrip ==
  [][(/\ out.op = "lend" /\ out.result = "OK"
      /\ out'.op = "return"
      /\ out'.bid = out.bid /\ out'.uid = out.uid)
       => /\ out'.result = "OK"
          /\ db'.books[out.bid].available
          /\ db'.books[out.bid].user_id = NULL
          /\ IssuedOfBook(db', out.bid) = EmptyBag
          /\ db'.users[out.uid].issued_book_count =
               db.users[out.uid].issued_book_count - 1]_vars

\* C9: RemoveBook of an unavailable Book fails with BookOnLoan, reports the
\* holder and changes nothing.
C9_RemoveOnLoan ==
  [][(/\ out'.op = "remove"
      /\ out'.bid \in DOMAIN db.books
      /\ ~db.books[out'.bid].available)
       => /\ out'.result = "BookOnLoan"
          /\ out'.holder = db.books[out'.bid].user_id
          /\ db' = db]_vars

\* C10: a successful Return reports no fine on or before the due date and 5
\* per day after it, and its writes are the book flag, the count and the
\* Loan row only.
C10_Fine ==
  [][(out'.op = "return" /\ out'.result = "OK")
       => \E r \in DOMAIN IssuedOfBook(db, out'.bid) :
            /\ r.user_id = out'.uid
            /\ today <= r.due_date => ~out'.late /\ out'.fine = 0
            /\ today > r.due_date
                 => out'.late /\ out'.fine = 5 * (today - r.due_date)
            /\ db'.books = [db.books EXCEPT ![out'.bid].available = TRUE,
                                            ![out'.bid].user_id = NULL]
            /\ db'.users = [db.users EXCEPT
                              ![r.user_id].issued_book_count = @ - 1]
            /\ db'.issuedbooks = db.issuedbooks (-) SetToBag({r})]_vars

\* a Book has just been returned three days late: fine 15
C10_Witness ==
  /\ out.op = "return" /\ out.result = "OK"
  /\ out.late /\ out.fine = 15

\* C11: a Return of a Book that is on loan to a different borrower fails with
\* LoanMismatch and changes no row.
C11_LoanMismatch ==
  [][(/\ out'.op = "return"
      /\ out'.bid \in DOMAIN db.books
      /\ ~db.books[out'.bid].available
      /\ db.books[out'.bid].user_id # out'.uid)
       => out'.result = "LoanMismatch" /\ db' = db]_vars

\* C12: AddBook with an id that already names a Book fails with DuplicateID
\* and changes nothing; with a fresh id it inserts exactly one Book, available
\* and with no holder, and changes no other row.
C12_AddBook ==
  [][out'.op = "add"
       => /\ out'.bid \in DOMAIN db.books
               => out'.result = "DuplicateID" /\ db' = db
          /\ out'.bid \notin DOMAIN db.books
               => /\ out'.result = "OK"
                  /\ DOMAIN db'.books = DOMAIN db.books \cup {out'.bid}
                  /\ \A b \in DOMAIN db.books : db'.books[b] = db.books[b]
                  /\ db'.books[out'.bid].available
                  /\ db'.books[out'.bid].user_id = NULL
                  /\ db'.users = db.users
                  /\ db'.issuedbooks = db.issuedbooks]_vars

\* an AddBook under the id of a Book that is on loan has just been refused
C12_Witness ==
  /\ out.op = "add" /\ out.result = "DuplicateID"
  /\ out.bid \in DOMAIN db.books
  /\ ~db.books[out.bid].available
  /\ IssuedOfBook(db, out.bid) # EmptyBag

\* C13: RemoveBook fails with NotFound and changes nothing when no Book has
\* the id; when the Book exists and is available it deletes exactly that Book
\* row and leaves every other Book, every Borrower and every Loan unchanged;
\* and no Loan ever references a Book that no longer exists.
C13_RemoveBook ==
  [][/\ \A r \in DOMAIN db'.issuedbooks : r.book_id \in DOMAIN db'.books
     /\ out'.op = "remove"
          => /\ out'.bid \notin DOMAIN db.books
                  => out'.result = "NotFound" /\ db' = db
             /\ (out'.bid \in DOMAIN db.books /\ db.books[out'.bid].available)
                  => /\ out'.result = "OK"
                     /\ db'.books = Drop(db.books, out'.bid)
                     /\ db'.users = db.users
                     /\ db'.issuedbooks = db.issuedbooks]_vars

\* an available Book has just been removed while another Book is on loan
C13_Witness ==
  /\ out.op = "remove" /\ out.result = "OK"
  /\ out.bid \notin DOMAIN db.books
  /\ db.issuedbooks # EmptyBag
  /\ \E b \in DOMAIN db.books : db.books[b].available

\* C15: Lend checks registration, then capacity, then availability: a
\* registered Borrower with 3 open loans who asks for a Book that is missing
\* or unavailable is refused with LendingLimitExceeded, and nothing changes.
C15_CheckOrder ==
  [][(/\ out'.op = "lend"
      /\ out'.uid \in DOMAIN db.users
      /\ db.users[out'.uid].issued_book_count = 3
      /\ (out'.bid \notin DOMAIN db.books \/ ~db.books[out'.bid].available))
       => out'.result = "LendingLimitExceeded" /\ db' = db]_vars

\* a Borrower at the limit has just been refused a Book that does not exist
C15_Witness ==
  /\ out.op = "lend" /\ out.result = "LendingLimitExceeded"
  /\ out.bid \notin DOMAIN db.books
  /\ db.users[out.uid].issued_book_count = 3

\* C20: every Book on loan can be returned by its holder, whatever the
\* holder's id, 0 included: a Return(b, u) of a Book whose open Loan names
\* borrower u passes the NotOnLoan and LoanMismatch checks and succeeds.
C20_HolderCanReturn ==
  [][(/\ out'.op = "return"
      /\ out'.bid \in DOMAIN db.books
      /\ ~db.books[out'.bid].available
      /\ db.books[out'.bid].user_id = out'.uid
      /\ \E r \in DOMAIN IssuedOfBook(db, out'.bid) : r.user_id = out'.uid)
       => /\ out'.result = "OK"
          /\ db'.books[out'.bid].available
          /\ IssuedOfBook(db', out'.bid) = EmptyBag]_vars

\* C16: while two processes Lend two different Books to the same Borrower,
\* that Borrower's count never exceeds 3, and once both have finished it
\* equals the number of the Borrower's open Loans.
C16_ConcurrentLimit ==
  \A p, q \in Procs :
    (/\ p # q
     /\ procs[p].op = "lend" /\ procs[q].op = "lend"
     /\ procs[p].bid # procs[q].bid
     /\ procs[p].uid = procs[q].uid
     /\ procs[p].uid \in DOMAIN db.users)
    => /\ db.users[procs[p].uid].issued_book_count <= 3
       /\ (procs[p].pc = "done" /\ procs[q].pc = "done")
            => db.users[procs[p].uid].issued_book_count =
                 LoansOfUser(procs[p].uid)

\* C17: the count of a Borrower is never negative, also while two processes
\* run Return on the same Book on loan: it is decremented once.
C17_CountNonNegative ==
  \A u \in DOMAIN db.users : db.users[u].issued_book_count >= 0

\* C18: Loan rows are created only by a successful Lend and deleted only by a
\* successful Return: add_book, remove_book, a rejected Lend or Return, the
\* search and the reports leave the Loans as they are; a successful Lend adds
\* one Loan, for its book and borrower, and a successful Return deletes the
\* Loan of the returned book and no other.
C18_LoanLifecycle ==
  [][/\ db'.issuedbooks # db.issuedbooks
          => \/ /\ out'.op = "lend" /\ out'.result = "OK"
                /\ \E r \in DOMAIN db'.issuedbooks :
                     /\ r.book_id = out'.bid /\ r.user_id = out'.uid
                     /\ db'.issuedbooks = db.issuedbooks (+) SetToBag({r})
             \/ /\ out'.op = "return" /\ out'.result = "OK"
                /\ db'.issuedbooks =
                     db.issuedbooks (-) IssuedOfBook(db, out'.bid)
     /\ (out'.op = "return" /\ out'.result = "OK")
          => /\ IssuedOfBook(db', out'.bid) = EmptyBag
             /\ \A b \in BookIds \ {out'.bid} :
                  IssuedOfBook(db', b) = IssuedOfBook(db, b)
     /\ (out'.op \notin {"lend", "return"} \/ out'.result # "OK")
          => db'.issuedbooks = db.issuedbooks]_vars

\* a Return has just deleted one Loan and left another one in place
C18_Witness ==
  /\ out.op = "return" /\ out.result = "OK"
  /\ IssuedOfBook(db, out.bid) = EmptyBag
  /\ db.issuedbooks # EmptyBag

\* C19: every Loan row is either a row that was there before the step,
\* unchanged, or the row a successful Lend has just created, whose issue date
\* is the day of the Lend, whose due date is 15 days later and whose title is
\* the title the Book had at that moment.
C19_LoanDates ==
  [][\A r \in DOMAIN db'.issuedbooks :
       \/ /\ r \in DOMAIN db.issuedbooks
          /\ db'.issuedbooks[r] = db.issuedbooks[r]
       \/ /\ out'.op = "lend" /\ out'.result = "OK"
          /\ out'.bid \in DOMAIN db.books
          /\ r = IssuedRow(out'.bid, db.books[out'.bid].title, out'.uid,
                           today, today + 15)]_vars

\* a Book re-entered under its second title has just been lent on a later day
C19_Witness ==
  /\ out.op = "lend" /\ out.result = "OK"
  /\ today > 0
  /\ IssuedRow(out.bid, 2, out.uid, today, today + 15) \in DOMAIN db.issuedbooks

\* C14: whenever a handler waits at an input prompt (book id, borrower id,
\* name, e-mail), and after the operator has aborted it there, the store is
\* as the handler found it: every prompt precedes every write.
C14_PromptsBeforeWrites ==
  (procs.ps.pc \in PromptPcs
     \/ procs.ps.result \in {"Aborted", "AbortedRegistration"})
    => db = procs.began

\* a Lend for an unknown borrower has just been aborted at the name and
\* e-mail prompt, in a store that already has a Loan
C14_Witness ==
  /\ procs.ps.op = "lend" /\ procs.ps.result = "AbortedRegistration"
  /\ procs.ps.uid \notin DOMAIN db.users
  /\ db.issuedbooks # EmptyBag

\* C21: a Lend whose registration INSERT the store rejects (the borrower was
\* unknown before the Lend and is still unknown after it) is a failure: it
\* does not report the registration as successful, it does not go on to the
\* capacity check of a borrower that does not exist, and it changes nothing.
C21_RegistrationRejected ==
  [][(/\ out'.op = "lend"
      /\ out'.uid \notin DOMAIN db.users
      /\ out'.uid \notin DOMAIN db'.users)
       => /\ ~out'.registered
          /\ out'.result # "TypeError"
          /\ db' = db]_vars

\* what return_book would print for the Loan r if it were run now
ReturnNow(r) ==
  {c.ps : c \in Run({Cfg(Start("return", "R_prompt", r.book_id, r.user_id,
                               0, 0, {}), db)}, today)}

\* C22: on any day an open Loan is listed by the overdue-books report iff a
\* Return of its book by its borrower on that day would report a fine greater
\* than 0, and both are so exactly when the due date is before today.
C22_OverdueConsistent ==
  \A r \in DOMAIN db.issuedbooks :
    /\ r.book_id \in overdue_books(db, today) <=> r.due_date < today
    /\ r.due_date < today
         <=> \A ps \in ReturnNow(r) : ps.late /\ ps.fine > 0

====
